---- MODULE Spec2Model ----
(***************************************************************************)
(* Model of the scalecord upscale engine:                                  *)
(*   src/scalecord/_commands.py     UpscaleCog.upscale_attached_image      *)
(*   src/scalecord/utils/upscale.py process_image_upscale,                 *)
(*                                  upscale_image_chunks, upscale_image,   *)
(*                                  UpscaleChunkHandler, UpscaleHandler    *)
(* Requests are asyncio tasks of one event loop: a task runs without       *)
(* interleaving until it suspends on a pending future (lock wait, Discord  *)
(* or file I/O).  process_image_upscale contains no such suspension, its   *)
(* awaits all resolve synchronously.                                       *)
(***************************************************************************)
EXTENDS Integers, Sequences, FiniteSets, TLC

(* ------------------------------ bounds --------------------------------- *)
NumReqs == 3          \* concurrent /upscale requests
MaxDim == 3           \* image width/height range of the job-level specification
MaxScale == 2         \* model scale range of the job-level specification
RecursionLimit == 3   \* interpreter recursion depth available to UpscaleHandler.upscale

(* ------------------------- program constants --------------------------- *)
chunk_size_default == 512
chunk_threshold_default == 768
MaxAttachmentDim == 2000
Channels == 3

Reqs == 1..NumReqs

Max2(a, b) == IF a >= b THEN a ELSE b

(* ------------------------------ values --------------------------------- *)
None == [kind |-> "none"]
Raised == [kind |-> "raised"]
Image(w, h) == [kind |-> "image", w |-> w, h |-> h]
Tensor(n, c, h, w) == [kind |-> "tensor", n |-> n, c |-> c, h |-> h, w |-> w]
Numel(t) == t.n * t.c * t.h * t.w

(* The model catalog handed to the cog: name -> loaded handle attributes.   *)
(* descriptor: ModelLoader returned an ImageModelDescriptor; tiling: the    *)
(* descriptor's tiling capability, which no line of the engine reads.       *)
MODELS ==
  [x2 |-> [descriptor |-> TRUE, scale |-> 2, tiling |-> TRUE],
   mask |-> [descriptor |-> FALSE, scale |-> 4, tiling |-> FALSE]]

ModelNames == DOMAIN MODELS \cup {"missing"}

(* Attachments a user can send: (width, height); 0 stands for "not an image". *)
Attachments ==
  { <<0, 600>>, <<2001, 600>>, <<768, 768>>, <<769, 512>> }

VARIABLES
  req,        \* per request: position in upscale_attached_image and its locals
  job,        \* per request: the activation of process_image_upscale
  sess,       \* per request: the handler object bound to ctx
  render_lock,\* the cog's asyncio.Lock
  cache_in,   \* requests whose input file exists in PATH_CACHE_IN
  peak,       \* highest number of session tensors ever resident at once
  comply,     \* per request: image_out, default_quality and the files written
  call        \* a call of a helper function: its arguments, position and value

vars == <<req, job, sess, render_lock, cache_in, peak, comply, call>>

(* ------------------------------ records -------------------------------- *)
NoCall == [fn |-> "none"]

NoChunk == [x |-> 0, y |-> 0, w |-> 0, h |-> 0]

NoSession ==
  [open |-> FALSE, kind |-> "none", tensor |-> "none", hp |-> FALSE,
   model |-> FALSE, chunk |-> NoChunk, c |-> 0, f |-> 0, depth |-> 0,
   fallbacks |-> 0, out |-> None, abort |-> FALSE]

NoJob ==
  [jpc |-> "idle", w |-> 0, h |-> 0, model |-> MODELS.mask,
   chunk_size |-> 0, chunk_threshold |-> 0, half_precision |-> FALSE,
   path |-> "none", chunks |-> <<>>, i |-> 0, upscaled_chunks |-> <<>>,
   upscaled_image |-> None, result |-> None,
   onDevice |-> FALSE, modelHalf |-> FALSE, cleanups |-> 0,
   entered |-> 0, exited |-> 0, allocs |-> 0, frees |-> 0,
   unitFailed |-> FALSE, constructFailed |-> FALSE, forwardFailed |-> FALSE]

NewJob(w, h, m, cs, ct, hp) ==
  [NoJob EXCEPT !.jpc = "load", !.w = w, !.h = h, !.model = m,
                !.chunk_size = cs, !.chunk_threshold = ct,
                !.half_precision = hp]

NoReq == [pc |-> "new", w |-> 0, h |-> 0, model_name |-> "missing",
          outcome |-> "none", ticket |-> 0]


(* ----------------------- asyncio.Lock (render_lock) -------------------- *)
(* render_lock is a default_prop of the cog: the Lock it returns is taken   *)
(* to be created once and cached, so every request uses the same Lock.      *)
(* Lock.acquire fast path: free and nobody queued.                         *)
CanAcquire_barge(lk) == ~lk.locked
CanAcquire_ignore_locked(lk) == lk.waiters = <<>>
CanAcquire(lk) == ~lk.locked /\ lk.waiters = <<>>

LockTake(lk) == [lk EXCEPT !.locked = TRUE]
LockEnqueue(lk, r) == [lk EXCEPT !.waiters = Append(@, r)]

(* Lock.release + _wake_up_first: the head waiter's future is resolved; it  *)
(* stays in the queue until its task resumes.                               *)
LockRelease_skip(lk) == lk
LockRelease_no_wake(lk) == [lk EXCEPT !.locked = FALSE]
LockRelease(lk) ==
  [lk EXCEPT !.locked = FALSE,
             !.woken = IF lk.waiters = <<>> THEN @ ELSE @ \cup {Head(lk.waiters)}]

(* the resumed waiter: finally self._waiters.remove(fut); self._locked = True *)
LockResume(lk, r) ==
  [lk EXCEPT !.locked = TRUE,
             !.waiters = SelectSeq(@, LAMBDA q : q # r),
             !.woken = @ \ {r}]

(* the lock once process_image_upscale is over: an exception leaves the     *)
(* async with block, a returned value keeps the handler inside it.          *)
GateAfterUpscale_release(lk, raised) == LockRelease(lk)
GateAfterUpscale(lk, raised) == IF raised THEN LockRelease(lk) ELSE lk

(* async with self.render_lock: __aexit__ releases on normal exit, on       *)
(* return from inside the block and on a propagating exception alike.       *)
ExitGated(lk) == LockRelease(lk)

(* -------------------------- pure helpers -------------------------------- *)
(* isinstance(model, ImageModelDescriptor) *)
ModelSupported_always(m) == TRUE
ModelSupported(m) == m.descriptor

(* any([n > chunk_threshold for n in image.size]) *)
UseChunks_ge(w, h, ct) == (w >= ct) \/ (h >= ct)
UseChunks(w, h, ct) == (w > ct) \/ (h > ct)

(* len(range(0, n, step)) *)
RangeLen(n, step) == IF n <= 0 THEN 0 ELSE (n + step - 1) \div step

(* PIL Image.crop((x, y, x + cs, y + cs)): the result has the size of the   *)
(* box, the part outside the image is filled with zeros.                    *)
Crop(x, y, cs) == [x |-> x, y |-> y, w |-> (x + cs) - x, h |-> (y + cs) - y]

(* chunks = [crop for y in range(0, height, cs) for x in range(0, width, cs)] *)
Chunks(w, h, cs) ==
  LET nx == RangeLen(w, cs)
      ny == RangeLen(h, cs)
  IN  [k \in 1..(nx * ny) |->
         Crop(((k - 1) % nx) * cs, ((k - 1) \div nx) * cs, cs)]

(* self._model(self._tensor).cpu() on a (1, C, h, w) input *)
Forward(chunk, scale) == Tensor(1, Channels, chunk.h * scale, chunk.w * scale)

(* tensor_check: bool(self._tensor is not None) *)
TensorCheck_always(s) == TRUE
TensorCheck(s) == s.tensor # "none"

(* torch.cuda.empty_cache(); gc.collect(): one more cleanup requested *)
EmptyCache_skip(n) == n
EmptyCache(n) == n + 1

(* clear_cache: self._tensor = None; empty_cache(); gc.collect() *)
clear_cache_keep(s) == s
clear_cache(s) == [s EXCEPT !.tensor = "none"]

Freed(s) == IF s.tensor # "none" THEN 1 ELSE 0
Released(s) == Freed(s) - Freed(clear_cache(s))

(* precision flag after the fallback branch of upscale():                   *)
(* UpscaleChunkHandler sets self._half_precision = True (line 134),         *)
(* UpscaleHandler leaves it as it was (lines 225-229).                      *)
ChunkUpscaleHalf_unset(hp) == hp
ChunkUpscaleHalf(hp) == TRUE
ImageUpscaleHalf(hp) == hp
UpscaleHalf(kind, hp) ==
  IF kind = "chunk" THEN ChunkUpscaleHalf(hp) ELSE ImageUpscaleHalf(hp)

(* what upscale() hands back once it gives up: `return None` *)
UpscaleFailed_raise == Raised
UpscaleFailed == None

(* any(n is None for n in upscaled_chunks) *)
AnyNone_never(chunks) == FALSE
AnyNone(chunks) == \E k \in 1..Len(chunks) : chunks[k].kind = "none"

RECURSIVE SumN(_)
SumN(ts) == IF ts = <<>> THEN 0 ELSE Head(ts).n + SumN(Tail(ts))

(* torch.cat(upscaled_chunks, dim=0): concatenation along the batch axis;   *)
(* raises on an empty list, on a None element and on differing h, w.        *)
TorchCat(ts) ==
  IF ts = <<>> \/ (\E k \in 1..Len(ts) : ts[k].kind # "tensor") THEN Raised
  ELSE IF \E k \in 1..Len(ts) : ts[k].h # ts[1].h \/ ts[k].w # ts[1].w \/ ts[k].c # ts[1].c
       THEN Raised
  ELSE Tensor(SumN(ts), ts[1].c, ts[1].h, ts[1].w)

(* PIL.Image.fromarray(t.squeeze().permute(1, 2, 0).numpy() * 255):        *)
(* squeeze drops every axis of length 1, permute(1, 2, 0) needs exactly     *)
(* three axes (C, H, W) and yields an H x W x C array.                      *)
Squeeze(t) == SelectSeq(<<t.n, t.c, t.h, t.w>>, LAMBDA d : d # 1)
FromTensor(t) ==
  LET d == Squeeze(t)
  IN IF Len(d) # 3 THEN Raised ELSE Image(d[3], d[2])

(* bool(tensor), as evaluated by `if not upscaled_image`: torch raises      *)
(* RuntimeError for a tensor of more than one element.                      *)
TensorTruth(t) == IF Numel(t) > 1 THEN "raise" ELSE "value"


(* ------------------------- scheduling helpers -------------------------- *)
(* A task inside process_image_upscale or inside the size loop that follows *)
(* it never yields to the event loop, so no other task runs until it has    *)
(* left the synchronous stretch.                                            *)
Runnable(r) == \A q \in Reqs \ {r} : req[q].pc \notin {"inJob", "comply"}

InJob(r, at) == req[r].pc = "inJob" /\ job[r].jpc = at /\ Runnable(r)

Resident == Cardinality({q \in Reqs : sess[q].tensor # "none"})
OpenSessions == Cardinality({q \in Reqs : sess[q].open})

(* a tensor is constructed and bound to self._tensor; the new buffer exists *)
(* before the previous reference (if any) is dropped by the assignment.     *)
Constructed(r, s, precision) ==
  /\ sess' = [sess EXCEPT ![r] = [s EXCEPT !.tensor = precision, !.c = @ + 1]]
  /\ peak' = Max2(peak, Resident + 1)

(* ---------------- process_image_upscale, lines 276-303 ----------------- *)
process_image_upscale_load(r) ==
  /\ InJob(r, "load")
  /\ LET j == job[r] IN
     IF ~ModelSupported(j.model)
     THEN job' = [job EXCEPT ![r] = [j EXCEPT !.jpc = "returned", !.result = None]]
     ELSE LET tiled == UseChunks(j.w, j.h, j.chunk_threshold)
              cs == IF tiled THEN Chunks(j.w, j.h, j.chunk_size) ELSE <<>>
          IN job' = [job EXCEPT ![r] =
               [j EXCEPT !.onDevice = TRUE,
                         !.modelHalf = j.half_precision,
                         !.cleanups = EmptyCache(@),
                         !.path = IF tiled THEN "chunks" ELSE "image",
                         !.chunks = cs,
                         !.i = 1,
                         !.jpc = IF tiled /\ cs = <<>> THEN "combine" ELSE "aenter"]]
  /\ UNCHANGED <<req, sess, render_lock, cache_in, peak, comply, call>>

(* Handler(model=model, ..., half_precision=half_precision): the precision  *)
(* a new session starts with is the job's, whatever the last session did.   *)
SessionHalf_inherit(j, prev) == prev.hp
SessionHalf(j, prev) == j.half_precision

(* for chunk in chunks: the tile handed to the session being opened *)
CurrentChunk_first(j) == j.chunks[1]
CurrentChunk(j) == j.chunks[j.i]

(* -------- Upscale(Chunk)Handler.__init__ and __aenter__, first try ------ *)
Handler_aenter(r) ==
  /\ InJob(r, "aenter")
  /\ LET j == job[r]
         s == [NoSession EXCEPT
                 !.open = TRUE,
                 !.kind = IF j.path = "chunks" THEN "chunk" ELSE "image",
                 !.hp = SessionHalf(j, sess[r]),
                 !.model = TRUE,
                 !.chunk = IF j.path = "chunks" THEN CurrentChunk(j)
                           ELSE [x |-> 0, y |-> 0, w |-> j.w, h |-> j.h]]
     IN \E ok \in BOOLEAN :
          IF ok
          THEN /\ Constructed(r, s, IF s.hp THEN "half" ELSE "full")
               /\ job' = [job EXCEPT ![r] = [j EXCEPT !.entered = @ + 1, !.allocs = @ + 1,
                                                     !.jpc = "check"]]
          ELSE /\ sess' = [sess EXCEPT ![r] =
                    [clear_cache(s) EXCEPT !.c = @ + 1, !.hp = TRUE,
                                           !.fallbacks = IF s.hp THEN @ ELSE @ + 1]]
               /\ job' = [job EXCEPT ![r] = [j EXCEPT !.entered = @ + 1, !.cleanups = EmptyCache(@),
                                                     !.constructFailed = @ \/ s.hp,
                                                     !.jpc = IF s.hp THEN "check" ELSE "aenter_retry"]]
               /\ peak' = peak
  /\ UNCHANGED <<req, render_lock, cache_in, comply, call>>

(* -------------- __aenter__, half-precision second try ------------------- *)
Handler_aenter_retry(r) ==
  /\ InJob(r, "aenter_retry")
  /\ LET j == job[r]
         s == sess[r]
     IN \E ok \in BOOLEAN :
          IF ok
          THEN /\ Constructed(r, s, "half")
               /\ job' = [job EXCEPT ![r] = [j EXCEPT !.allocs = @ + 1, !.frees = @ + Freed(s),
                                                     !.jpc = "check"]]
          ELSE /\ sess' = [sess EXCEPT ![r] = [clear_cache(s) EXCEPT !.c = @ + 1]]
               /\ job' = [job EXCEPT ![r] = [j EXCEPT !.cleanups = EmptyCache(@),
                                                     !.frees = @ + Released(s),
                                                     !.constructFailed = TRUE,
                                                     !.jpc = "check"]]
               /\ peak' = peak
  /\ UNCHANGED <<req, render_lock, cache_in, comply, call>>

(* ---- upscale_image_chunks 348-349 / upscale_image 383-384 -------------- *)
Handler_tensor_check(r) ==
  /\ InJob(r, "check")
  /\ LET j == job[r]
         s == sess[r]
     IN IF TensorCheck(s)
        THEN /\ job' = [job EXCEPT ![r] = [j EXCEPT !.jpc = "upscale"]]
             /\ sess' = sess
        ELSE /\ job' = [job EXCEPT ![r] = [j EXCEPT !.jpc = "aexit"]]
             /\ sess' = [sess EXCEPT ![r] = [s EXCEPT !.abort = TRUE, !.out = None]]
  /\ UNCHANGED <<req, render_lock, cache_in, peak, comply, call>>


(* ------------------ Upscale(Chunk)Handler.upscale ---------------------- *)
(* One forward pass.  RecursionLimit stands for the depth at which the      *)
(* nested `return await self.upscale()` ends in a RecursionError, which the *)
(* enclosing suppress(Exception) turns into the None result.                *)
Handler_upscale(r) ==
  /\ InJob(r, "upscale")
  /\ LET j == job[r]
         s == sess[r]
     IN \E ok \in BOOLEAN :
          /\ s.tensor = "none" => ~ok
          /\ IF ok
             THEN /\ sess' = [sess EXCEPT ![r] =
                       [s EXCEPT !.f = @ + 1, !.out = Forward(s.chunk, j.model.scale)]]
                  /\ job' = [job EXCEPT ![r] = [j EXCEPT !.jpc = "aexit"]]
             ELSE IF ~s.hp /\ s.depth < RecursionLimit
             THEN /\ sess' = [sess EXCEPT ![r] =
                       [clear_cache(s) EXCEPT !.f = @ + 1, !.fallbacks = @ + 1,
                                              !.hp = UpscaleHalf(s.kind, s.hp)]]
                  /\ job' = [job EXCEPT ![r] = [j EXCEPT !.cleanups = EmptyCache(@),
                                                        !.frees = @ + Released(s),
                                                        !.jpc = "upscale_retry"]]
             ELSE /\ sess' = [sess EXCEPT ![r] = [s EXCEPT !.f = @ + 1, !.out = UpscaleFailed]]
                  /\ job' = [job EXCEPT ![r] = [j EXCEPT !.forwardFailed = TRUE,
                                                        !.jpc = "aexit"]]
  /\ UNCHANGED <<req, render_lock, cache_in, peak, comply, call>>

(* ---- upscale(): half-precision tensor, then `return await self.upscale()` *)
Handler_upscale_retry(r) ==
  /\ InJob(r, "upscale_retry")
  /\ LET j == job[r]
         s == sess[r]
     IN \E ok \in BOOLEAN :
          IF ok
          THEN /\ Constructed(r, [s EXCEPT !.depth = @ + 1], "half")
               /\ job' = [job EXCEPT ![r] = [j EXCEPT !.allocs = @ + 1, !.frees = @ + Freed(s),
                                                     !.jpc = "upscale"]]
          ELSE /\ sess' = [sess EXCEPT ![r] = [s EXCEPT !.c = @ + 1, !.out = UpscaleFailed]]
               /\ job' = [job EXCEPT ![r] = [j EXCEPT !.forwardFailed = TRUE, !.jpc = "aexit"]]
               /\ peak' = peak
  /\ UNCHANGED <<req, render_lock, cache_in, comply, call>>

(* ---- __aexit__, then the statement after the `async with` block -------- *)
Handler_aexit(r) ==
  /\ InJob(r, "aexit")
  /\ LET j == job[r]
         s == sess[r]
         j1 == [j EXCEPT !.exited = @ + 1, !.cleanups = EmptyCache(@),
                         !.frees = @ + Released(s),
                         !.unitFailed = @ \/ s.out.kind = "none"]
     IN /\ sess' = [sess EXCEPT ![r] = [clear_cache(s) EXCEPT !.open = FALSE, !.model = FALSE]]
        /\ job' = [job EXCEPT ![r] =
             IF s.abort
             THEN [j1 EXCEPT !.upscaled_image = None, !.jpc = "finish"]
             ELSE IF s.out.kind = "raised"
             THEN [j1 EXCEPT !.result = Raised, !.jpc = "raised"]
             ELSE IF j.path = "chunks"
             THEN [j1 EXCEPT !.upscaled_chunks = Append(@, s.out),
                             !.i = IF j.i < Len(j.chunks) THEN @ + 1 ELSE @,
                             !.jpc = IF j.i < Len(j.chunks) THEN "aenter" ELSE "combine"]
             ELSE [j1 EXCEPT !.upscaled_image = s.out, !.jpc = "finish"]]
  /\ UNCHANGED <<req, render_lock, cache_in, peak, comply, call>>

(* ---------------- upscale_image_chunks, lines 352-355 ------------------- *)
upscale_image_chunks_combine(r) ==
  /\ InJob(r, "combine")
  /\ LET j == job[r]
         t == TorchCat(j.upscaled_chunks)
     IN job' = [job EXCEPT ![r] =
          IF AnyNone(j.upscaled_chunks)
          THEN [j EXCEPT !.upscaled_image = None, !.jpc = "finish"]
          ELSE IF t.kind = "raised"
          THEN [j EXCEPT !.result = Raised, !.jpc = "raised"]
          ELSE [j EXCEPT !.upscaled_image = t, !.jpc = "finish"]]
  /\ UNCHANGED <<req, sess, render_lock, cache_in, peak, comply, call>>

(* ---------------- process_image_upscale, lines 304-316 ------------------ *)
process_image_upscale_finish(r) ==
  /\ InJob(r, "finish")
  /\ LET j == job[r]
         u == j.upscaled_image
     IN \E truth \in BOOLEAN :
          /\ (u.kind = "none" \/ TensorTruth(u) = "raise") => truth
          /\ job' = [job EXCEPT ![r] =
               IF u.kind = "none"
               THEN [j EXCEPT !.result = None, !.jpc = "returned"]
               ELSE IF TensorTruth(u) = "raise"
               THEN [j EXCEPT !.result = Raised, !.jpc = "raised"]
               ELSE IF ~truth
               THEN [j EXCEPT !.result = None, !.jpc = "returned"]
               ELSE IF FromTensor(u).kind = "raised"
               THEN [j EXCEPT !.result = Raised, !.jpc = "raised"]
               ELSE [j EXCEPT !.result = FromTensor(u), !.cleanups = EmptyCache(@),
                              !.jpc = "returned"]]
  /\ UNCHANGED <<req, sess, render_lock, cache_in, peak, comply, call>>

JobStep(r) ==
  \/ process_image_upscale_load(r)
  \/ Handler_aenter(r)
  \/ Handler_aenter_retry(r)
  \/ Handler_tensor_check(r)
  \/ Handler_upscale(r)
  \/ Handler_upscale_retry(r)
  \/ Handler_aexit(r)
  \/ upscale_image_chunks_combine(r)
  \/ process_image_upscale_finish(r)


(* ======== output size compliance, _commands.py lines 112-141 ============ *)
StartQuality == 98
FloorQuality == 90
HardLimit == 26214400

(* An encoder: the size of the file written by the first save (line 112,    *)
(* original format, no quality argument) and by a JPEG save at each quality *)
(* the counter can take.  Sizes sit on either side of the limit.            *)
ReQualities == FloorQuality..(StartQuality - 1)
Sizes == {HardLimit, HardLimit + 1}
Encoders == [first : Sizes, jpeg : [ReQualities -> Sizes]]
SmallEncoder == [first |-> HardLimit, jpeg |-> [q \in ReQualities |-> HardLimit]]
Suffixes == {".png", ".jpg"}

NoComply(enc, suffix) ==
  [enc |-> enc, suffix |-> suffix, default_quality |-> 0, size |-> 0,
   files |-> {}, encodes |-> <<>>, sent |-> None]

(* os.path.getsize(image_out) > (25 * 1024 * 1024) *)
TooBig_off_by_one(size) == size > HardLimit + 1
TooBig(size) == size > HardLimit

(* if default_quality < 90 *)
BelowFloor_inclusive(q) == q <= FloorQuality
BelowFloor_late(q) == q < FloorQuality - 1
BelowFloor(q) == q < FloorQuality

(* the quality argument of the re-encode: save(..., quality=97, ...) *)
ReencodeQuality(default_quality) == 97

(* lines 137-138: image_out = image_out.with_suffix('.jpg') *)
ForceJpeg(suffix) == IF suffix # ".jpg" THEN ".jpg" ELSE suffix

(* line 112 upscaled_image.save(image_out, optimize=True); line 115 *)
FirstSave(c) ==
  [c EXCEPT !.default_quality = StartQuality,
            !.size = c.enc.first,
            !.files = {c.suffix},
            !.encodes = <<[format |-> "original", quality |-> 0, size |-> c.enc.first]>>]

(* lines 135-141: remove the old file, force .jpg, save as JPEG *)
Reencode(c, q) ==
  LET sfx == ForceJpeg(c.suffix)
      sz == c.enc.jpeg[ReencodeQuality(q)]
  IN [c EXCEPT !.default_quality = q,
               !.suffix = sfx,
               !.size = sz,
               !.files = (@ \ {c.suffix}) \cup {sfx},
               !.encodes = Append(@, [format |-> "JPEG", quality |-> ReencodeQuality(q),
                                      size |-> sz])]

(* ============ UpscaleCog.upscale_attached_image (_commands.py) ========== *)
Done(outcome) == [NoReq EXCEPT !.pc = "done", !.outcome = outcome]

(* line 56: any([bool(not n) for n in [image.height, image.width]]) *)
NotAnImage(a) == a[1] = 0 \/ a[2] = 0

(* line 60: any([bool(n > 2000) for n in [image.height, image.width]]) *)
AttachmentTooBig_never(a) == FALSE
AttachmentTooBig(a) == a[1] > MaxAttachmentDim \/ a[2] > MaxAttachmentDim

(* lines 68-69: self._models.get(model_name) is falsy *)
ModelMissing(mn) == mn \notin DOMAIN MODELS

(* lines 55-85: validation, model lookup, "I'm upscaling" message *)
upscale_attached_image_validate(r) ==
  /\ req[r].pc = "new"
  /\ Runnable(r)
  /\ \E a \in Attachments, mn \in ModelNames :
       req' = [req EXCEPT ![r] =
         IF NotAnImage(a) THEN Done("invalid")
         ELSE IF AttachmentTooBig(a) THEN Done("too_big")
         ELSE IF ModelMissing(mn) THEN Done("no_model")
         ELSE [pc |-> "announced", w |-> a[1], h |-> a[2], model_name |-> mn,
               outcome |-> "none", ticket |-> 0]]
  /\ UNCHANGED <<job, sess, render_lock, cache_in, peak, comply, call>>

(* lines 87-91: await image.save(image_in) *)
upscale_attached_image_save(r) ==
  /\ req[r].pc = "announced"
  /\ Runnable(r)
  /\ req' = [req EXCEPT ![r].pc = "saved"]
  /\ cache_in' = cache_in \cup {r}
  /\ UNCHANGED <<job, sess, render_lock, peak, comply, call>>

(* lines 97-104: the call made once the lock is held *)
CallJob(r) ==
  NewJob(req[r].w, req[r].h, MODELS[req[r].model_name],
         chunk_size_default, chunk_threshold_default, FALSE)

EnterGated(r) ==
  /\ req' = [req EXCEPT ![r].pc = "inJob"]
  /\ job' = [job EXCEPT ![r] = CallJob(r)]

(* the position of a request in the order in which requests reach          *)
(* `async with self.render_lock` (observation only, read by no action)      *)
RECURSIVE MaxTicket(_)
MaxTicket(rs) ==
  IF rs = {} THEN 0
  ELSE LET q == CHOOSE x \in rs : TRUE
       IN Max2(req[q].ticket, MaxTicket(rs \ {q}))

(* line 94: async with self.render_lock -> Lock.acquire *)
upscale_attached_image_acquire(r) ==
  /\ req[r].pc = "saved"
  /\ Runnable(r)
  /\ IF CanAcquire(render_lock)
     THEN /\ render_lock' = LockTake(render_lock)
          /\ req' = [req EXCEPT ![r].pc = "inJob", ![r].ticket = MaxTicket(Reqs) + 1]
          /\ job' = [job EXCEPT ![r] = CallJob(r)]
     ELSE /\ render_lock' = LockEnqueue(render_lock, r)
          /\ req' = [req EXCEPT ![r].pc = "waiting", ![r].ticket = MaxTicket(Reqs) + 1]
          /\ job' = job
  /\ UNCHANGED <<sess, cache_in, peak, comply, call>>

(* Lock.acquire resumed after release() resolved this waiter's future *)
upscale_attached_image_resume(r) ==
  /\ req[r].pc = "waiting"
  /\ Runnable(r)
  /\ r \in render_lock.woken
  /\ render_lock' = LockResume(render_lock, r)
  /\ EnterGated(r)
  /\ UNCHANGED <<sess, cache_in, peak, comply, call>>

(* lines 101-112: process_image_upscale has returned or raised.  An        *)
(* exception leaves both with-blocks (the lock is released) and ends the    *)
(* command; None leads to the "GPU couldn't handle" message, sent while the *)
(* lock is held; an image is saved to image_out.                            *)
upscale_attached_image_after(r) ==
  /\ req[r].pc = "inJob"
  /\ job[r].jpc \in {"returned", "raised"}
  /\ Runnable(r)
  /\ req' = [req EXCEPT ![r] =
       IF job[r].jpc = "raised" THEN Done("error")
       ELSE IF job[r].result.kind = "none" THEN [@ EXCEPT !.pc = "notify_failed"]
       ELSE [@ EXCEPT !.pc = "comply"]]
  /\ render_lock' = GateAfterUpscale(render_lock, job[r].jpc = "raised")
  /\ job' = [job EXCEPT ![r] = NoJob]
  /\ sess' = [sess EXCEPT ![r] = NoSession]
  /\ comply' = IF job[r].jpc = "returned" /\ job[r].result.kind = "image"
               THEN [comply EXCEPT ![r] = FirstSave(@)]
               ELSE comply
  /\ UNCHANGED <<cache_in, peak, call>>

(* lines 108-111: after the failure message, os.remove(image_in); return *)
upscale_attached_image_failed(r) ==
  /\ req[r].pc = "notify_failed"
  /\ Runnable(r)
  /\ req' = [req EXCEPT ![r] = Done("gpu_failed")]
  /\ cache_in' = cache_in \ {r}
  /\ render_lock' = ExitGated(render_lock)
  /\ UNCHANGED <<job, sess, peak, comply, call>>

(* lines 116-149: one pass of the while loop.  A file that fits ends the    *)
(* loop, leaves the async with block (lock released) and opens               *)
(* File(image_out) for the final message.                                   *)
upscale_attached_image_comply(r) ==
  /\ req[r].pc = "comply"
  /\ Runnable(r)
  /\ LET c == comply[r]
         q == c.default_quality - 1
     IN IF TooBig(c.size)
        THEN IF BelowFloor(q)
             THEN /\ comply' = [comply EXCEPT ![r].default_quality = q]
                  /\ req' = [req EXCEPT ![r].pc = "notify_too_large"]
                  /\ render_lock' = render_lock
             ELSE /\ comply' = [comply EXCEPT ![r] = Reencode(c, q)]
                  /\ req' = req
                  /\ render_lock' = render_lock
        ELSE /\ comply' = [comply EXCEPT ![r].sent =
                                [kind |-> "file", suffix |-> c.suffix, size |-> c.size]]
             /\ req' = [req EXCEPT ![r].pc = "sending"]
             /\ render_lock' = ExitGated(render_lock)
  /\ UNCHANGED <<job, sess, cache_in, peak, call>>

(* lines 123-133: after the too-large message, os.remove(image_in); return *)
upscale_attached_image_too_large(r) ==
  /\ req[r].pc = "notify_too_large"
  /\ Runnable(r)
  /\ req' = [req EXCEPT ![r] = Done("too_large")]
  /\ cache_in' = cache_in \ {r}
  /\ render_lock' = ExitGated(render_lock)
  /\ UNCHANGED <<job, sess, peak, comply, call>>

(* lines 159-168: the attachment has been sent; remove both files *)
upscale_attached_image_sent(r) ==
  /\ req[r].pc = "sending"
  /\ Runnable(r)
  /\ req' = [req EXCEPT ![r] = Done("sent")]
  /\ cache_in' = cache_in \ {r}
  /\ comply' = [comply EXCEPT ![r].files = @ \ {comply[r].suffix}]
  /\ UNCHANGED <<job, sess, render_lock, peak, call>>

(* ----------------------------- system ---------------------------------- *)
Init ==
  /\ req = [r \in Reqs |-> NoReq]
  /\ job = [r \in Reqs |-> NoJob]
  /\ sess = [r \in Reqs |-> NoSession]
  /\ render_lock = [locked |-> FALSE, waiters |-> <<>>, woken |-> {}]
  /\ cache_in = {}
  /\ peak = 0
  /\ call = NoCall
  /\ comply = [r \in Reqs |-> NoComply(SmallEncoder, ".png")]

Next ==
  \E r \in Reqs :
    \/ upscale_attached_image_validate(r)
    \/ upscale_attached_image_save(r)
    \/ upscale_attached_image_acquire(r)
    \/ upscale_attached_image_resume(r)
    \/ JobStep(r)
    \/ upscale_attached_image_after(r)
    \/ upscale_attached_image_failed(r)

Spec == Init /\ [][Next]_vars

(* ---- process_image_upscale called directly (cli/upscale.py line 48), ---- *)
(* ---- with every parameter drawn from a bounded range ------------------- *)
JobModels == [descriptor : BOOLEAN, scale : 1..MaxScale, tiling : BOOLEAN]

InitJob ==
  /\ \E w \in 1..MaxDim, h \in 1..MaxDim, m \in JobModels,
        cs \in 2..MaxDim, ct \in 1..MaxDim, hp \in BOOLEAN :
       job = [r \in Reqs |-> IF r = 1 THEN NewJob(w, h, m, cs, ct, hp) ELSE NoJob]
  /\ req = [r \in Reqs |-> IF r = 1 THEN [NoReq EXCEPT !.pc = "inJob"] ELSE Done("none")]
  /\ sess = [r \in Reqs |-> NoSession]
  /\ render_lock = [locked |-> FALSE, waiters |-> <<>>, woken |-> {}]
  /\ cache_in = {}
  /\ peak = 0
  /\ call = NoCall
  /\ comply = [r \in Reqs |-> NoComply(SmallEncoder, ".png")]

NextJob == \E r \in Reqs : JobStep(r)

SpecJob == InitJob /\ [][NextJob]_vars

(* ---- lines 112-168 of upscale_attached_image, entered with an image in -- *)
(* ---- upscaled_image: the first save is done, the lock is held ----------- *)
InitComply ==
  /\ \E enc \in Encoders, sfx \in Suffixes :
       comply = [r \in Reqs |-> IF r = 1 THEN FirstSave(NoComply(enc, sfx))
                                ELSE NoComply(SmallEncoder, ".png")]
  /\ req = [r \in Reqs |-> IF r = 1 THEN [NoReq EXCEPT !.pc = "comply", !.ticket = 1]
                            ELSE Done("none")]
  /\ job = [r \in Reqs |-> NoJob]
  /\ sess = [r \in Reqs |-> NoSession]
  /\ render_lock = [locked |-> TRUE, waiters |-> <<>>, woken |-> {}]
  /\ cache_in = {1}
  /\ peak = 0
  /\ call = NoCall

NextComply ==
  \E r \in Reqs :
    \/ upscale_attached_image_comply(r)
    \/ upscale_attached_image_too_large(r)
    \/ upscale_attached_image_sent(r)

SpecComply == InitComply /\ [][NextComply]_vars

(* ---- upscale_attached_image as a whole, against every outcome the ------ *)
(* ---- signature of process_image_upscale allows: an image, None, or an --- *)
(* ---- exception.  The call has no suspension point, so it is one step. --- *)
process_image_upscale_any(r) ==
  /\ InJob(r, "load")
  /\ LET j == job[r] IN
     \E out \in {"image", "none", "raised"} :
       job' = [job EXCEPT ![r] =
         IF out = "image"
         THEN [j EXCEPT !.jpc = "returned",
                        !.result = Image(j.w * j.model.scale, j.h * j.model.scale)]
         ELSE IF out = "none"
         THEN [j EXCEPT !.jpc = "returned", !.result = None]
         ELSE [j EXCEPT !.jpc = "raised", !.result = Raised]]
  /\ UNCHANGED <<req, sess, render_lock, cache_in, peak, comply, call>>

(* encoders of the three kinds the loop can tell apart *)
HandlerEncoders ==
  {e \in Encoders : \A q \in ReQualities : e.jpeg[q] = e.jpeg[FloorQuality] /\
                                            e.jpeg[q] <= e.first}

(* every request has passed validation and saved its attachment, and is    *)
(* about to reach `async with self.render_lock`                            *)
InitHandler ==
  /\ req = [r \in Reqs |-> [NoReq EXCEPT !.pc = "saved", !.w = chunk_threshold_default,
                                         !.h = chunk_threshold_default,
                                         !.model_name = "x2"]]
  /\ job = [r \in Reqs |-> NoJob]
  /\ sess = [r \in Reqs |-> NoSession]
  /\ render_lock = [locked |-> FALSE, waiters |-> <<>>, woken |-> {}]
  /\ cache_in = Reqs
  /\ peak = 0
  /\ call = NoCall
  /\ \E e \in HandlerEncoders : comply = [r \in Reqs |-> NoComply(e, ".png")]

HandlerStep(r) ==
  \/ upscale_attached_image_acquire(r)
  \/ upscale_attached_image_resume(r)
  \/ process_image_upscale_any(r)
  \/ upscale_attached_image_after(r)
  \/ upscale_attached_image_failed(r)
  \/ upscale_attached_image_comply(r)
  \/ upscale_attached_image_too_large(r)
  \/ upscale_attached_image_sent(r)

NextHandler == \E r \in Reqs : HandlerStep(r)

SpecHandler == InitHandler /\ [][NextHandler]_vars

(* The event loop runs every ready task, and the awaited Discord calls are   *)
(* taken to complete, so each request's next step is eventually taken.       *)
SpecHandlerFair == SpecHandler /\ \A r \in Reqs : WF_vars(HandlerStep(r))

(* The handler is a coroutine driven by the event loop: the loop body has no *)
(* suspension, and the awaited Discord calls are taken to complete.          *)
SpecComplyFair == SpecComply /\ WF_vars(NextComply)


(* ============ get_model_resources (utils/models.py 31-64) =============== *)
MaxResources == 2

(* A URL is (stem, extension): u.endswith('.pth') looks at the extension.   *)
Page1 == <<"page1", "html">>
Page2 == <<"page2", "html">>
Direct1 == <<"model1", "pth">>
Direct2 == <<"model2", "pth">>
UrlLists ==
  { <<>>, <<Page1>>, <<Direct1>>, <<Page1, Direct1>>, <<Direct1, Page1>>,
    <<Page1, Page2>>, <<Direct1, Direct2>>, <<Page2, Direct2, Page1>> }
Shas == {"sha_a", "sha_b"}
Kinds == { <<"pth", "pytorch">>, <<"onnx", "pytorch">>, <<"pth", "onnx">> }
Resources ==
  { [type |-> k[1], platform |-> k[2], sha256 |-> h, urls |-> us] :
      k \in Kinds, h \in Shas, us \in UrlLists }
ResourceLists == UNION { [1..n -> Resources] : n \in 0..MaxResources }

(* u.endswith('.pth') *)
EndsWithPth(u) == u[2] = "pth"

(* line 45: r['type'] != 'pth' or r['platform'] != 'pytorch' *)
SkipResource_type_only(r) == r.type # "pth"
SkipResource(r) == r.type # "pth" \/ r.platform # "pytorch"

(* lines 49-52: the key exists and already holds a direct link *)
DirectKnown(keys, vals, sha) ==
  sha \in keys /\ \E k \in 1..Len(vals[sha]) : EndsWithPth(vals[sha][k])

(* lines 56-61: for u in r['urls'], run on the list `cur` of the key *)
RECURSIVE AddUrls(_, _)
AddUrls(cur, us) ==
  IF us = <<>> THEN cur
  ELSE IF EndsWithPth(Head(us)) THEN <<Head(us)>>
  ELSE AddUrls(Append(cur, Head(us)), Tail(us))

(* one pass of `for r in resources` *)
get_model_resources_step ==
  /\ call.fn = "get_model_resources"
  /\ call.i <= Len(call.resources)
  /\ LET r == call.resources[call.i]
         h == r.sha256
     IN call' =
          IF SkipResource(r) \/ DirectKnown(call.keys, call.formatted, h)
          THEN [call EXCEPT !.i = @ + 1]
          ELSE [call EXCEPT
                  !.i = @ + 1,
                  !.keys = @ \cup {h},
                  !.formatted[h] = AddUrls(IF h \in call.keys THEN @ ELSE <<>>, r.urls)]
  /\ UNCHANGED <<req, job, sess, render_lock, cache_in, peak, comply>>

InitResources ==
  /\ req = [r \in Reqs |-> Done("none")]
  /\ job = [r \in Reqs |-> NoJob]
  /\ sess = [r \in Reqs |-> NoSession]
  /\ render_lock = [locked |-> FALSE, waiters |-> <<>>, woken |-> {}]
  /\ cache_in = {}
  /\ peak = 0
  /\ comply = [r \in Reqs |-> NoComply(SmallEncoder, ".png")]
  /\ \E rs \in ResourceLists :
       call = [fn |-> "get_model_resources", resources |-> rs, i |-> 1,
               keys |-> {}, formatted |-> [h \in Shas |-> <<>>]]

SpecResources == InitResources /\ [][get_model_resources_step]_vars

(* ========= UpscaleCog.model_autocomplete (_commands.py 174-197) ========= *)
MaxName == 3
MaxCurrent == 3
AutocompleteLimit == 25

(* A string is a sequence of characters; Code gives the code point by which *)
(* Python orders and lower-cases them.                                      *)
Letters == {"A", "a", "b"}
Space == " "
Code(c) == IF c = " " THEN 32 ELSE IF c = "A" THEN 65 ELSE IF c = "a" THEN 97 ELSE 98

(* str.lower() *)
LowerChar(c) == IF c = "A" THEN "a" ELSE c
Lower_identity(str) == str
Lower(str) == [k \in 1..Len(str) |-> LowerChar(str[k])]

(* a < b for str: the first differing code point decides, a prefix is less  *)
RECURSIVE StrLess(_, _)
StrLess(a, b) ==
  IF b = <<>> THEN FALSE
  ELSE IF a = <<>> THEN TRUE
  ELSE IF Head(a) # Head(b) THEN Code(Head(a)) < Code(Head(b))
  ELSE StrLess(Tail(a), Tail(b))

(* sorted([k for k in self._models.keys()]) *)
Sorted(S) ==
  [k \in 1..Cardinality(S) |->
     CHOOSE x \in S : Cardinality({y \in S : StrLess(y, x)}) = k - 1]

(* str.split(' '): the pieces between single spaces, empty pieces included  *)
RECURSIVE Split(_, _)
Split(str, piece) ==
  IF str = <<>> THEN <<piece>>
  ELSE IF Head(str) = Space THEN <<piece>> \o Split(Tail(str), <<>>)
  ELSE Split(Tail(str), Append(piece, Head(str)))

(* line 185: [t for t in current.lower().split(' ') if t] if current else [] *)
Tokenize(current) ==
  IF current = <<>> THEN <<>>
  ELSE SelectSeq(Split(Lower(current), <<>>), LAMBDA t : t # <<>>)

(* t in n: t occurs in n as a substring *)
Within(t, n) ==
  \E k \in 1..(Len(n) - Len(t) + 1) : SubSeq(n, k, k + Len(t) - 1) = t

(* line 192: all([bool(t in n.lower()) for t in tokens]) *)
MatchesAll(n, tokens) == \A k \in 1..Len(tokens) : Within(tokens[k], Lower(n))

(* islice(..., 25) and [:25] *)
Take(seq, n) == SubSeq(seq, 1, IF Len(seq) < n THEN Len(seq) ELSE n)

Names == UNION { [1..n -> Letters] : n \in 1..MaxName }
Currents == UNION { [1..n -> Letters \cup {Space}] : n \in 0..MaxCurrent }
Catalogs ==
  { [models |-> S, model_names |-> Sorted(S)] :
      S \in { {}, {n \in Names : Len(n) = 1}, {n \in Names : n[1] # "a"}, Names } }

model_autocomplete ==
  /\ call.fn = "model_autocomplete"
  /\ call.pc = "called"
  /\ LET tokens == Tokenize(call.current)
     IN call' = [call EXCEPT
          !.pc = "returned",
          !.result = IF tokens # <<>>
                     THEN Take(SelectSeq(call.model_names,
                                         LAMBDA n : MatchesAll(n, tokens)),
                               AutocompleteLimit)
                     ELSE Take(call.model_names, AutocompleteLimit)]
  /\ UNCHANGED <<req, job, sess, render_lock, cache_in, peak, comply>>

InitAutocomplete ==
  /\ req = [r \in Reqs |-> NoReq]
  /\ job = [r \in Reqs |-> NoJob]
  /\ sess = [r \in Reqs |-> NoSession]
  /\ render_lock = [locked |-> FALSE, waiters |-> <<>>, woken |-> {}]
  /\ cache_in = {}
  /\ peak = 0
  /\ comply = [r \in Reqs |-> NoComply(SmallEncoder, ".png")]
  /\ \E c \in Catalogs, cur \in Currents :
       call = [fn |-> "model_autocomplete", models |-> c.models,
               model_names |-> c.model_names, current |-> cur,
               pc |-> "called", result |-> <<>>]

SpecAutocomplete == InitAutocomplete /\ [][model_autocomplete]_vars

(* ===== get_supported_models, display name (utils/models.py 347-361) ===== *)
MaxTags == 2
MaxSlack == 8
DisplayLimit == 80
TrimLength == 77

(* A display name is known by its form and its length.  The input is the   *)
(* length of f"[{scale}X] {name}" and the lengths of the tag names.         *)
BaseLens == (DisplayLimit - MaxSlack)..(DisplayLimit + MaxSlack)
TagLens == {1, 3, 6}
TagLists == UNION { [1..n -> TagLens] : n \in 0..MaxTags }

RECURSIVE SumLen(_)
SumLen(ts) == IF ts = <<>> THEN 0 ELSE Head(ts) + SumLen(Tail(ts))

(* len(', '.join(tag_names)) *)
JoinLen(ts) == IF ts = <<>> THEN 0 ELSE SumLen(ts) + 2 * (Len(ts) - 1)

(* f"[{scale}X] {name} ({', '.join(tag_names)})" *)
WithTags(base, ts) == [form |-> "tags", len |-> base + 2 + JoinLen(ts) + 1]

(* f"[{scale}X] {name} (...)" *)
WithDots(base) == [form |-> "dots", len |-> base + 6]

(* f"[{scale}X] {name}"[:77] + '...' *)
Trimmed_late(base) ==
  [form |-> "trimmed", len |-> (IF base < TrimLength + 1 THEN base ELSE TrimLength + 1) + 3]
Trimmed(base) ==
  [form |-> "trimmed", len |-> (IF base < TrimLength THEN base ELSE TrimLength) + 3]

(* tag_names.pop() *)
Pop(ts) == SubSeq(ts, 1, Len(ts) - 1)

(* one test of `while len(display_name) > 80` and the pass that follows *)
get_supported_models_shorten ==
  /\ call.fn = "get_supported_models"
  /\ call.pc = "while"
  /\ call' =
       IF call.display_name.len > DisplayLimit
       THEN IF call.tag_names # <<>>
            THEN IF Pop(call.tag_names) # <<>>
                 THEN [call EXCEPT !.tag_names = Pop(@), !.passes = @ + 1,
                                   !.display_name = WithTags(call.base, Pop(call.tag_names))]
                 ELSE [call EXCEPT !.tag_names = Pop(@), !.passes = @ + 1,
                                   !.display_name = WithDots(call.base)]
            ELSE [call EXCEPT !.passes = @ + 1, !.pc = "done",
                              !.display_name = Trimmed(call.base)]
       ELSE [call EXCEPT !.pc = "done"]
  /\ UNCHANGED <<req, job, sess, render_lock, cache_in, peak, comply>>

InitDisplay ==
  /\ req = [r \in Reqs |-> NoReq]
  /\ job = [r \in Reqs |-> NoJob]
  /\ sess = [r \in Reqs |-> NoSession]
  /\ render_lock = [locked |-> FALSE, waiters |-> <<>>, woken |-> {}]
  /\ cache_in = {}
  /\ peak = 0
  /\ comply = [r \in Reqs |-> NoComply(SmallEncoder, ".png")]
  /\ \E b \in BaseLens, ts \in TagLists :
       call = [fn |-> "get_supported_models", base |-> b, tags |-> ts,
               tag_names |-> ts, display_name |-> WithTags(b, ts),
               pc |-> "while", passes |-> 0]

SpecDisplay == InitDisplay /\ [][get_supported_models_shorten]_vars

(* the loop is synchronous code: its next pass is always taken *)
SpecDisplayFair == SpecDisplay /\ WF_vars(get_supported_models_shorten)

(* ============ auto_prop_cached (utils/properties.py 7-32) =============== *)
MaxOps == 4

(* the values the property can hold; Absent: the instance has no attribute  *)
(* named cache_name                                                         *)
Values == {"v1", "v2", "v3"}
Absent == "absent"

(* getter, line 19: setattr(self, cache_name, value) *)
StoreComputed_skip(cache, value) == cache
StoreComputed(cache, value) == value

(* getter, lines 15-20.  `now` is what func(self) returns if called at this *)
(* moment; it may differ from one moment to the next.                       *)
prop_get ==
  /\ call.fn = "auto_prop_cached"
  /\ call.ops < MaxOps
  /\ \E now \in Values :
       call' =
         IF call.cache # Absent
         THEN [call EXCEPT !.ops = @ + 1, !.last = "get", !.got = call.cache,
                           !.first_get = IF @ = Absent THEN now ELSE @]
         ELSE [call EXCEPT !.ops = @ + 1, !.last = "get", !.got = now,
                           !.cache = StoreComputed(@, now),
                           !.computed = @ + 1,
                           !.computed_after_set = @ \/ call.last_set # Absent,
                           !.first_get = IF @ = Absent THEN now ELSE @]
  /\ UNCHANGED <<req, job, sess, render_lock, cache_in, peak, comply>>

(* setter, line 24 *)
prop_set ==
  /\ call.fn = "auto_prop_cached"
  /\ call.ops < MaxOps
  /\ \E v \in Values :
       call' = [call EXCEPT !.ops = @ + 1, !.last = "set", !.cache = v, !.last_set = v]
  /\ UNCHANGED <<req, job, sess, render_lock, cache_in, peak, comply>>

(* deleter, lines 28-29 *)
prop_delete ==
  /\ call.fn = "auto_prop_cached"
  /\ call.ops < MaxOps
  /\ call' = [call EXCEPT !.ops = @ + 1, !.last = "delete",
                          !.cache = IF @ # Absent THEN Absent ELSE @,
                          !.last_set = Absent, !.first_get = Absent,
                          !.computed = 0, !.computed_after_set = FALSE]
  /\ UNCHANGED <<req, job, sess, render_lock, cache_in, peak, comply>>

(* a fresh instance: no cached attribute.  last_set, first_get, computed    *)
(* and computed_after_set record what happened since the last delete and    *)
(* are read by no action.                                                   *)
InitProp ==
  /\ req = [r \in Reqs |-> NoReq]
  /\ job = [r \in Reqs |-> NoJob]
  /\ sess = [r \in Reqs |-> NoSession]
  /\ render_lock = [locked |-> FALSE, waiters |-> <<>>, woken |-> {}]
  /\ cache_in = {}
  /\ peak = 0
  /\ comply = [r \in Reqs |-> NoComply(SmallEncoder, ".png")]
  /\ call = [fn |-> "auto_prop_cached", cache |-> Absent, ops |-> 0,
             last |-> "none", got |-> Absent, last_set |-> Absent,
             first_get |-> Absent, computed |-> 0, computed_after_set |-> FALSE]

NextProp == prop_get \/ prop_set \/ prop_delete

SpecProp == InitProp /\ [][NextProp]_vars

(* ============================== properties ============================== *)
InGated(r) == req[r].pc \in {"inJob", "notify_failed", "comply", "notify_too_large"}
Finished(r) == job[r].jpc \in {"returned", "raised"}
Units(j) == IF j.path = "chunks" THEN Len(j.chunks) ELSE IF j.path = "image" THEN 1 ELSE 0

(* C1: at most one request is inside the section guarded by render_lock, and *)
(* at most one request has a model on the accelerator, at any instant.       *)
C1_MutualExclusion ==
  /\ Cardinality({r \in Reqs : InGated(r)}) <= 1
  /\ Cardinality({r \in Reqs : job[r].onDevice}) <= 1

C1_Witness ==
  \E r, q \in Reqs : r # q /\ InGated(r) /\ render_lock.locked /\ req[q].pc = "waiting"

(* C2 (as claimed): a call in which no unit of work failed ends by returning *)
(* an image of exactly (W*S, H*S), on either path.                           *)
C2_OutputDimensions ==
  \A r \in Reqs :
    (Finished(r) /\ job[r].model.descriptor /\ ~job[r].unitFailed
       /\ ~job[r].constructFailed /\ ~job[r].forwardFailed)
    => job[r].result = Image(job[r].w * job[r].model.scale, job[r].h * job[r].model.scale)

(* C3: when any unit of work failed (construction or forward pass), the call *)
(* returns None: no image, no partial image, no exception.                   *)
C3_NoPartialResult ==
  \A r \in Reqs :
    (Finished(r) /\ (job[r].unitFailed \/ job[r].constructFailed \/ job[r].forwardFailed))
    => (job[r].jpc = "returned" /\ job[r].result = None)

C3_Witness ==
  \E r \in Reqs :
    /\ job[r].jpc = "returned" /\ job[r].path = "chunks" /\ job[r].forwardFailed
    /\ \E k \in 1..Len(job[r].upscaled_chunks) : job[r].upscaled_chunks[k].kind = "tensor"
    /\ \E k \in 1..Len(job[r].upscaled_chunks) : job[r].upscaled_chunks[k].kind = "none"

(* C4 (as claimed): once any tile has failed, by construction or by an       *)
(* upscale that returned None, no further session is opened and no further   *)
(* forward pass is run.                                                      *)
C4_FailFast ==
  [][\A r \in Reqs :
       (job[r].path = "chunks" /\ (job[r].constructFailed \/ job[r].forwardFailed)
          /\ job'[r].jpc # "idle")
       => (job'[r].entered = job[r].entered /\ sess'[r].f = sess[r].f)]_vars

(* C4 (amended): once a tile's tensor construction has failed, no further    *)
(* session is opened and no forward pass is run; the job ends with tiles     *)
(* left unprocessed.                                                         *)
C4_FailFastOnConstruction ==
  [][\A r \in Reqs :
       (job[r].path = "chunks" /\ job[r].constructFailed /\ job'[r].jpc # "idle")
       => (job'[r].entered = job[r].entered /\ sess'[r].f = sess[r].f)]_vars

C4_Witness ==
  \E r \in Reqs :
    /\ job[r].jpc = "returned" /\ job[r].path = "chunks" /\ job[r].constructFailed
    /\ job[r].i < Len(job[r].chunks) /\ job[r].entered = job[r].i

(* C5: when process_image_upscale has ended, every tensor allocated by a     *)
(* session has been freed and every session entered has run __aexit__.       *)
C5_ResourcesReleased ==
  \A r \in Reqs :
    Finished(r) =>
      /\ job[r].allocs = job[r].frees
      /\ job[r].entered = job[r].exited
      /\ sess[r].tensor = "none" /\ ~sess[r].open /\ ~sess[r].model

C5_Witness ==
  \E r \in Reqs :
    /\ job[r].jpc = "returned" /\ job[r].constructFailed
    /\ job[r].allocs >= 2 /\ job[r].entered >= 2

(* C6: system-wide, never more than one session tensor resident and never    *)
(* more than one session scope open.                                         *)
C6_SingleTensor ==
  /\ peak <= 1
  /\ Resident <= 1
  /\ OpenSessions <= 1

C6_Witness ==
  \E r, q \in Reqs :
    /\ sess[r].tensor = "half" /\ sess[r].depth >= 1 /\ job[r].entered >= 2
    /\ q # r /\ req[q].pc = "saved"

(* C7 (as claimed): the tiled path is taken iff the larger dimension exceeds *)
(* the threshold and the model supports tiling.                              *)
C7_PathSelection ==
  \A r \in Reqs :
    job[r].path # "none" =>
      (job[r].path = "chunks" <=>
         (Max2(job[r].w, job[r].h) > job[r].chunk_threshold /\ job[r].model.tiling))

(* C7 (amended): the tiled path is taken iff the larger dimension exceeds    *)
(* the threshold, whatever the model's tiling capability.                    *)
C7_PathByThresholdOnly ==
  \A r \in Reqs :
    job[r].path # "none" =>
      (job[r].path = "chunks" <=> Max2(job[r].w, job[r].h) > job[r].chunk_threshold)

C7_Witness ==
  \E r \in Reqs :
    /\ job[r].path = "chunks" /\ ~job[r].model.tiling
    /\ Max2(job[r].w, job[r].h) = job[r].chunk_threshold + 1

(* C8 (as claimed): within one session the tensor is constructed at most     *)
(* once and the forward pass runs at most once.                              *)
C8_NoRetry ==
  \A r \in Reqs : sess[r].c <= 1 /\ sess[r].f <= 1

(* C8 (amended): no unit of work gets a second session; within one tile      *)
(* session there is at most one half-precision fallback, hence at most two   *)
(* tensor constructions and at most two forward passes, and a tile ends      *)
(* without result only once its session is at half precision.                *)
C8_OneFallbackPerTile ==
  \A r \in Reqs :
    /\ job[r].entered <= Units(job[r])
    /\ sess[r].kind = "chunk" =>
         (sess[r].c <= 2 /\ sess[r].f <= 2 /\ sess[r].fallbacks <= 1)
    /\ (sess[r].kind = "chunk" /\ job[r].jpc = "aexit" /\ sess[r].out.kind = "none")
         => sess[r].hp

C8_Witness ==
  \E r \in Reqs :
    sess[r].kind = "chunk" /\ sess[r].c = 2 /\ sess[r].f = 2 /\ sess[r].out.kind = "none"
      /\ job[r].jpc = "aexit"

(* C9: a handle that is not an ImageModelDescriptor makes the call return    *)
(* None with the accelerator untouched.                                      *)
C9_UnsupportedModelFailsFast ==
  \A r \in Reqs :
    (job[r].jpc # "idle" /\ ~job[r].model.descriptor) =>
      /\ ~job[r].onDevice /\ job[r].cleanups = 0
      /\ job[r].entered = 0 /\ job[r].allocs = 0
      /\ sess[r] = NoSession
      /\ job[r].jpc \in {"load", "returned"}
      /\ job[r].result = None

C9_Witness ==
  \E r \in Reqs : job[r].jpc = "returned" /\ ~job[r].model.descriptor

C11_FIFO ==
  [][\A r \in Reqs :
       (req[r].pc # "inJob" /\ req'[r].pc = "inJob")
       => \A q \in Reqs \ {r} :
            req[q].pc = "waiting" => req'[r].ticket < req[q].ticket]_vars

C11_Witness ==
  \E r, q \in Reqs :
    /\ req[r].pc = "inJob" /\ req[r].ticket >= 2
    /\ req[q].pc = "waiting" /\ req[r].ticket < req[q].ticket

(* ------------------------ output size compliance ------------------------ *)
TooLarge(r) ==
  \/ req[r].pc = "notify_too_large"
  \/ req[r].pc = "done" /\ req[r].outcome = "too_large"
Sent(r) == comply[r].sent.kind = "file"
Complied(r) == req[r].pc = "done" /\ req[r].outcome \in {"too_large", "sent"}
MaxReencodes == StartQuality - FloorQuality
LastEncode(c) == c.encodes[Len(c.encodes)]

C13_SentFits ==
  \A r \in Reqs :
    LET c == comply[r] IN
    Sent(r) =>
      /\ c.sent.size <= HardLimit
      /\ c.sent.size = LastEncode(c).size
      /\ c.sent.size = c.size /\ c.sent.suffix = c.suffix
      /\ req[r].pc = "sending" => c.files = {c.sent.suffix}

C13_Witness ==
  \E r \in Reqs :
    /\ req[r].pc = "sending" /\ Sent(r)
    /\ Len(comply[r].encodes) = 2
    /\ \E q \in ReQualities : comply[r].enc.jpeg[q] > HardLimit

(* C14: the k-th encode is made at quality 98 - (k - 1), and every encode   *)
(* after the first is a JPEG.                                                *)
C14_DecreasingQuality ==
  \A r \in Reqs :
    \A k \in 1..Len(comply[r].encodes) :
      /\ comply[r].encodes[k].quality = StartQuality - (k - 1)
      /\ k >= 2 => comply[r].encodes[k].format = "JPEG"

(* C15: the loop ends for every encoder: it re-encodes at most 8 times, and  *)
(* after the 8th oversized re-encode it reports the too-large failure.       *)
C15_Terminates ==
  /\ [](\A r \in Reqs :
          LET c == comply[r] IN
          /\ Len(c.encodes) <= 1 + MaxReencodes
          /\ (c.encodes # <<>> /\ c.default_quality < FloorQuality) => TooLarge(r))
  /\ <>(\A r \in Reqs : req[r].pc = "done")

C15_Witness ==
  \E r \in Reqs :
    /\ req[r].pc = "done" /\ req[r].outcome = "too_large"
    /\ Len(comply[r].encodes) = 1 + MaxReencodes
    /\ comply[r].enc.jpeg[96] <= HardLimit
    /\ comply[r].enc.jpeg[95] > HardLimit

(* C16: with an encoder whose size does not grow as quality falls, the       *)
(* outcome is too-large only if the size at quality 90 exceeds the limit;    *)
(* otherwise the file sent is the encoding at the first quality of 98..90    *)
(* that fits.                                                                *)
SizeAt(enc, q) == IF q = StartQuality THEN enc.first ELSE enc.jpeg[q]
Monotone(enc) ==
  \A q \in ReQualities : SizeAt(enc, q) <= SizeAt(enc, q + 1)
FirstFit(enc) ==
  CHOOSE q \in FloorQuality..StartQuality :
    /\ SizeAt(enc, q) <= HardLimit
    /\ \A p \in (q + 1)..StartQuality : SizeAt(enc, p) > HardLimit

C16_MonotoneOutcome ==
  \A r \in Reqs :
    LET c == comply[r] IN
    (Complied(r) /\ Monotone(c.enc)) =>
      IF SizeAt(c.enc, FloorQuality) > HardLimit
      THEN req[r].outcome = "too_large"
      ELSE /\ req[r].outcome = "sent"
           /\ c.sent.size = SizeAt(c.enc, FirstFit(c.enc))
           /\ Len(c.encodes) = 1 + (StartQuality - FirstFit(c.enc))

(* ------------------------------- tiling --------------------------------- *)
CeilDiv(a, b) == (a + b - 1) \div b
Min2(a, b) == IF a <= b THEN a ELSE b
Tiled(r) == job[r].path = "chunks"

(* C17: a W x H image split with tile size T gives ceil(W/T) * ceil(H/T)     *)
(* tiles in row-major order, the tile at grid (x, y) being                   *)
(* min(T, W - x*T) wide and min(T, H - y*T) high.                            *)
C17_TileGeometry ==
  \A r \in Reqs :
    Tiled(r) =>
      LET j == job[r]
          T == j.chunk_size
          nx == CeilDiv(j.w, T)
          ny == CeilDiv(j.h, T)
      IN /\ Len(j.chunks) = nx * ny
         /\ \A k \in 1..Len(j.chunks) :
              LET gx == (k - 1) % nx
                  gy == (k - 1) \div nx
              IN /\ j.chunks[k].x = gx * T
                 /\ j.chunks[k].y = gy * T
                 /\ j.chunks[k].w = Min2(T, j.w - gx * T)
                 /\ j.chunks[k].h = Min2(T, j.h - gy * T)

(* C18: the tensor the tiled path produces is the one the whole-image path   *)
(* produces for the same image: one (1, C, H*S, W*S) output, whatever the    *)
(* tile size.                                                                *)
C18_TilingInvariant ==
  \A r \in Reqs :
    job[r].upscaled_image.kind = "tensor" =>
      job[r].upscaled_image =
        Forward([x |-> 0, y |-> 0, w |-> job[r].w, h |-> job[r].h], job[r].model.scale)

(* C19: process_image_upscale always returns: an image or None, never an     *)
(* exception.                                                                *)
C19_NoEscape ==
  \A r \in Reqs :
    /\ job[r].jpc # "raised"
    /\ job[r].jpc = "returned" => job[r].result.kind \in {"image", "none"}

(* C20: upscale() of either session kind never raises: it returns the model  *)
(* output, or None once a forward pass or a fallback construction failed,    *)
(* on the first attempt and on every later one.                              *)
C20_UpscaleNeverRaises ==
  \A r \in Reqs :
    /\ sess[r].out.kind \in {"tensor", "none"}
    /\ (job[r].jpc = "aexit" /\ ~sess[r].abort /\ sess[r].tensor = "none")
         => sess[r].out = None

C20_Witness ==
  \E r \in Reqs :
    /\ job[r].jpc = "aexit" /\ ~sess[r].abort
    /\ sess[r].kind = "image"
    /\ sess[r].depth >= 1 /\ sess[r].f >= 2
    /\ sess[r].out = None

(* ------------------------------ sessions -------------------------------- *)
(* C21: in one session the half-precision fallback is taken at most once,    *)
(* construction and upscale together, so the forward pass runs at most       *)
(* twice, for a tile session and for a whole-image session alike.            *)
C21_FallbackOnce ==
  \A r \in Reqs :
    /\ sess[r].fallbacks <= 1
    /\ sess[r].f <= 2

C23_Order ==
  [][\A r \in Reqs :
       /\ (job[r].jpc = "idle" /\ job'[r].jpc # "idle")
            => (render_lock'.locked /\ req'[r].pc = "inJob")
       /\ (comply[r].encodes = <<>> /\ comply'[r].encodes # <<>>)
            => /\ job[r].jpc = "returned" /\ job[r].result.kind = "image"
               /\ render_lock.locked /\ render_lock'.locked
       /\ (InGated(r) /\ InGated(r)') => (render_lock.locked /\ render_lock'.locked)
       /\ (InGated(r) /\ ~InGated(r)')
            => \/ req'[r].pc = "sending" /\ ~TooBig(comply[r].size)
               \/ req'[r].pc = "done" /\ req'[r].outcome \in {"too_large", "gpu_failed", "error"}
    ]_vars

C23_Witness ==
  \E r, q \in Reqs :
    /\ req[r].pc = "notify_too_large" /\ render_lock.locked
    /\ Len(comply[r].encodes) = 1 + MaxReencodes
    /\ req[q].pc = "waiting"

(* C24: with every request's steps taken fairly, a request waiting on the    *)
(* lock eventually enters the guarded section; and while a holder stays in   *)
(* the guarded section every waiter stays waiting.                           *)
C24_NoStarvation ==
  /\ \A r \in Reqs : (req[r].pc = "waiting") ~> (req[r].pc = "inJob")
  /\ [][\A q \in Reqs :
          (req[q].pc = "waiting" /\ \E r \in Reqs \ {q} : InGated(r) /\ InGated(r)')
          => req'[q].pc = "waiting"]_vars

C24_Witness ==
  \E r, q \in Reqs :
    /\ r # q
    /\ req[r].pc = "inJob" /\ req[r].ticket = NumReqs
    /\ req[q].pc = "done"

(* C25: sessions are opened one per tile in row-major order: the k-th        *)
(* session gets the k-th tile, and a tiled job in which every tile succeeds  *)
(* has opened as many sessions as there are tiles, its outputs in tile       *)
(* order; a whole-image job opens exactly one session.                       *)
C25_OneSessionPerTile ==
  \A r \in Reqs :
    LET j == job[r]
        s == sess[r]
    IN /\ j.entered <= Units(j)
       /\ j.exited <= j.entered /\ j.entered <= j.exited + 1
       /\ (Tiled(r) /\ s.open) =>
            (j.entered = j.i /\ s.kind = "chunk" /\ s.chunk = j.chunks[j.entered])
       /\ (Tiled(r) /\ j.jpc = "combine" /\ ~j.unitFailed) =>
            /\ j.entered = Len(j.chunks) /\ j.exited = Len(j.chunks)
            /\ Len(j.upscaled_chunks) = Len(j.chunks)
            /\ \A k \in 1..Len(j.chunks) :
                 j.upscaled_chunks[k] = Forward(j.chunks[k], j.model.scale)
       /\ (j.path = "image" /\ j.jpc \in {"finish", "returned", "raised"}) =>
            (j.entered = 1 /\ j.exited = 1)

C25_Witness ==
  \E r \in Reqs :
    /\ Tiled(r) /\ job[r].jpc = "combine" /\ ~job[r].unitFailed
    /\ Len(job[r].chunks) = 4 /\ job[r].entered = 4

(* C26: no session step changes the job's model, its precision or its        *)
(* half_precision setting, and every session starts from the job's original  *)
(* half_precision value, also after a fallback in an earlier tile's session. *)
InSession(j) ==
  j.jpc \in {"aenter", "aenter_retry", "check", "upscale", "upscale_retry", "aexit"}

C26_SessionsLeaveJobAlone ==
  [][\A r \in Reqs :
       InSession(job[r]) =>
         /\ job'[r].model = job[r].model
         /\ job'[r].modelHalf = job[r].modelHalf
         /\ job'[r].onDevice = job[r].onDevice
         /\ job'[r].half_precision = job[r].half_precision
         /\ job'[r].chunks = job[r].chunks
         /\ (job'[r].entered = job[r].entered + 1 /\ sess'[r].fallbacks = 0)
              => sess'[r].hp = job[r].half_precision
    ]_vars

C26_Witness ==
  \E r \in Reqs :
    /\ Tiled(r) /\ job[r].i = 2 /\ job[r].cleanups >= 3
    /\ sess[r].open /\ sess[r].fallbacks = 0
    /\ sess[r].tensor = "full" /\ ~sess[r].hp

(* ------------------------------ cache files ----------------------------- *)
(* C27: when the command has returned (attachment sent, failure message or   *)
(* too-large message), neither the request's input file nor any output file  *)
(* written for it is left in the cache directories.                          *)
C27_NoCacheLeft ==
  \A r \in Reqs :
    (req[r].pc = "done" /\ req[r].outcome \in {"sent", "gpu_failed", "too_large"})
      => (r \notin cache_in /\ comply[r].files = {})

(* ------------------------------ validation ------------------------------ *)
Rejected(r) ==
  req[r].pc = "done" /\ req[r].outcome \in {"invalid", "too_big", "no_model"}
Admitted(r) ==
  req[r].pc \in {"announced", "saved", "waiting", "inJob", "notify_failed",
                 "comply", "notify_too_large", "sending"}

(* C28: a request rejected by validation leaves no cache file, is not in the *)
(* lock's queue and has no upscale job; whatever gets past validation has a  *)
(* width and a height in 1..2000 and a model of the catalog.                 *)
C28_RejectedHasNoEffect ==
  \A r \in Reqs :
    /\ Rejected(r) =>
         /\ r \notin cache_in /\ comply[r].files = {}
         /\ job[r] = NoJob /\ sess[r] = NoSession
         /\ \A k \in 1..Len(render_lock.waiters) : render_lock.waiters[k] # r
    /\ Admitted(r) =>
         /\ req[r].w \in 1..MaxAttachmentDim /\ req[r].h \in 1..MaxAttachmentDim
         /\ req[r].model_name \in DOMAIN MODELS
    /\ (job[r].jpc # "idle" \/ r \in cache_in \/ sess[r].open) => ~Rejected(r)

C28_Witness ==
  \E r, q \in Reqs :
    /\ Rejected(r) /\ req[r].outcome = "too_big"
    /\ req[q].pc = "inJob" /\ render_lock.locked /\ cache_in = {q}

(* --------------------------- get_model_resources ------------------------ *)
Returned(fn) == call.fn = fn /\ call.i > Len(call.resources)
Usable(r) == r.type = "pth" /\ r.platform = "pytorch"
UsableWith(sha) ==
  SelectSeq(call.resources, LAMBDA r : Usable(r) /\ r.sha256 = sha)
RECURSIVE AllUrls(_)
AllUrls(rs) == IF rs = <<>> THEN <<>> ELSE Head(rs).urls \o AllUrls(Tail(rs))
IsDirect(u) == u[2] = "pth"

(* C29: the keys of the result are the sha256 values of the resources of     *)
(* type 'pth' and platform 'pytorch'; a key one of whose resources has a     *)
(* URL ending in '.pth' maps to exactly one such URL, any other key maps to  *)
(* all URLs of all its resources.                                            *)
C29_ModelResources ==
  Returned("get_model_resources") =>
    /\ call.keys = {call.resources[k].sha256 :
                      k \in {n \in 1..Len(call.resources) : Usable(call.resources[n])}}
    /\ \A sha \in call.keys :
         LET all == AllUrls(UsableWith(sha))
             val == call.formatted[sha]
         IN IF \E k \in 1..Len(all) : IsDirect(all[k])
            THEN /\ Len(val) = 1 /\ IsDirect(val[1])
                 /\ \E k \in 1..Len(all) : all[k] = val[1]
            ELSE val = all

C29_Witness ==
  /\ Returned("get_model_resources")
  /\ Len(call.resources) = 2
  /\ call.keys = {"sha_a"}
  /\ call.resources[1].urls = <<Page1, Page2>>
  /\ call.resources[2].urls = <<Page2, Direct2, Page1>>
  /\ call.formatted["sha_a"] = <<Direct2>>

(* --------------------------- model_autocomplete ------------------------- *)
(* the tokens of the input: its maximal runs of non-space characters,        *)
(* lower-cased                                                               *)
TokensOf(cur) ==
  { [k \in 1..(j - i + 1) |-> LowerChar(cur[i + k - 1])] :
      <<i, j>> \in { p \in (1..Len(cur)) \X (1..Len(cur)) :
                      /\ p[1] <= p[2]
                      /\ \A k \in p[1]..p[2] : cur[k] # " "
                      /\ (p[1] = 1 \/ cur[p[1] - 1] = " ")
                      /\ (p[2] = Len(cur) \/ cur[p[2] + 1] = " ") } }
HasCI(name, t) ==
  \E k \in 1..(Len(name) - Len(t) + 1) :
    \A d \in 1..Len(t) : LowerChar(name[k + d - 1]) = t[d]
Wanted(name) == \A t \in TokensOf(call.current) : HasCI(name, t)

(* C30: at most 25 choices; they are names of the catalog in sorted order,   *)
(* each containing every token whatever the case, and every catalog name     *)
(* that contains every token and is not returned comes after the 25th        *)
(* choice; with no token every name counts.                                  *)
C30_Autocomplete ==
  (call.fn = "model_autocomplete" /\ call.pc = "returned") =>
    LET res == call.result IN
    /\ Len(res) <= 25
    /\ \A k \in 1..Len(res) : res[k] \in call.models /\ Wanted(res[k])
    /\ \A k \in 1..(Len(res) - 1) : StrLess(res[k], res[k + 1])
    /\ \A m \in call.models :
         (Wanted(m) /\ \A k \in 1..Len(res) : res[k] # m)
           => (Len(res) = 25 /\ StrLess(res[25], m))

C30_Witness ==
  /\ call.fn = "model_autocomplete" /\ call.pc = "returned"
  /\ call.current = <<" ", "A", " ">>
  /\ Len(call.result) = 25
  /\ Cardinality(call.models) > 25
  /\ \E m \in call.models : Wanted(m) /\ \A k \in 1..25 : call.result[k] # m

(* ----------------------------- display names ---------------------------- *)
Shortening == call.fn = "get_supported_models"

(* C31: the shortening loop ends, after at most one pass per tag and one     *)
(* more, with a display name of at most 80 characters; each pass drops the   *)
(* last tag, the pass that drops the only tag left puts (...) in place of    *)
(* the tags, and the name is cut only when no tag is left.                   *)
C31_DisplayName ==
  /\ [](Shortening =>
          /\ call.passes <= Len(call.tags) + 1
          /\ call.pc = "done" => call.display_name.len <= 80)
  /\ [][(Shortening /\ call'.passes # call.passes) =>
          LET d == call.display_name
              e == call'.display_name
          IN /\ call.tag_names # <<>> =>
                  /\ call'.tag_names = SubSeq(call.tag_names, 1, Len(call.tag_names) - 1)
                  /\ e.form = IF Len(call.tag_names) = 1 THEN "dots" ELSE "tags"
             /\ e.form = "trimmed" =>
                  /\ call.tag_names = <<>>
                  /\ call.tags # <<>> => d.form = "dots"
             /\ d.form = "dots" => e.form = "trimmed"]_vars
  /\ <>(Shortening => call.pc = "done")

C31_Witness ==
  /\ Shortening /\ call.pc = "done"
  /\ Len(call.tags) = 2 /\ call.passes = 3
  /\ call.display_name.form = "trimmed" /\ call.display_name.len = 80
  /\ call.base > 80

(* ---------------------------- auto_prop_cached -------------------------- *)
(* C32: a get returns the last value set since the last delete, or else the  *)
(* value the wrapped function gave at the first get since the last delete;   *)
(* between two deletes the wrapped function runs at most once, and never     *)
(* after a set.                                                              *)
C32_CachedProperty ==
  call.fn = "auto_prop_cached" =>
    /\ call.last = "get" =>
         call.got = IF call.last_set # Absent THEN call.last_set ELSE call.first_get
    /\ call.computed <= 1
    /\ ~call.computed_after_set

C32_Witness ==
  /\ call.fn = "auto_prop_cached"
  /\ call.ops = 4 /\ call.last = "get"
  /\ call.last_set = Absent /\ call.computed = 1
  /\ call.got = "v2" /\ call.first_get = "v2" /\ call.cache = "v2"

====
